---- MODULE Spec2Model ----
(***************************************************************************)
(* Channel structure of Discordeno (src/structures/channel.ts):            *)
(* createChannel, the overwrite check hasPermission, and the methods that  *)
(* gate a RequestManager call on botHasPermission and on the shape of      *)
(* their input.                                                            *)
(*                                                                         *)
(* Conventions.  An optional JavaScript value is a sequence of length at   *)
(* most one: None is undefined, Some(v) is v.  A string whose text plays   *)
(* no part (message content) is represented by its length.  Snowflake ids  *)
(* of messages are natural numbers.                                        *)
(***************************************************************************)
EXTENDS Integers, Sequences, FiniteSets, TLC

VARIABLES cache, oracle, last, tasks, created

vars == <<cache, oracle, last, tasks, created>>

None == <<>>
Some(v) == <<v>>

----------------------------------------------------------------------------
(* Bounds of the model *)

\* how far around each threshold of the code the inputs range
Slack == 1
\* longest permission_overwrites list of a payload
MaxOverwrites == 2
\* longest list of permissions handed to hasPermission
MaxRequired == 2
\* most calls of methods whose callers wait for them at one time
MaxTasks == 1

----------------------------------------------------------------------------
(* Constants of the program *)

\* channel.ts:153  content.content.length > 2000
MESSAGE_MAX_LENGTH == 2000
\* channel.ts:117  options.limit > 100
GET_MESSAGES_MAX == 100
\* channel.ts:173  ids.length < 2
DELETE_MESSAGES_MIN == 2
\* channel.ts:175, 182  ids.length > 100, ids.splice(0, 100)
DELETE_MESSAGES_MAX == 100

\* Permissions (types/permission.ts): one bit each
CREATE_INSTANT_INVITE == 1
MANAGE_CHANNELS == 16
VIEW_CHANNEL == 1024
SEND_MESSAGES == 2048
SEND_TTS_MESSAGES == 4096
MANAGE_MESSAGES == 8192
READ_MESSAGE_HISTORY == 65536
MANAGE_WEBHOOKS == 536870912

Permissions ==
    { CREATE_INSTANT_INVITE, MANAGE_CHANNELS, VIEW_CHANNEL, SEND_MESSAGES,
      SEND_TTS_MESSAGES, MANAGE_MESSAGES, READ_MESSAGE_HISTORY, MANAGE_WEBHOOKS }

----------------------------------------------------------------------------
(* Values the inputs are drawn from *)

ChannelIds == {"10"}
\* ids of the channels created while calls are in flight
CachedIds == {"10", "11"}
GuildIds == {"1"}
\* ids an overwrite can target and ids hasPermission can be asked about
OverwriteIds == {"1", "2"}
ActorIds == {"1", "2", "3"}
\* the permissions hasPermission is asked about
OverwriteBits == {CREATE_INSTANT_INVITE, MANAGE_CHANNELS}

Near(k) == (k - Slack) .. (k + Slack)
Low == 0 .. Slack

RECURSIVE BitAnd(_, _)
\* JavaScript's a & b on non-negative integers below 2^31
BitAnd(a, b) ==
    IF a = 0 \/ b = 0 THEN 0
    ELSE (IF a % 2 = 1 /\ b % 2 = 1 THEN 1 ELSE 0) + 2 * BitAnd(a \div 2, b \div 2)

RECURSIVE SumOf(_)
SumOf(S) == IF S = {} THEN 0 ELSE LET x == CHOOSE y \in S : TRUE IN x + SumOf(S \ {x})

\* the allow and the deny masks of the overwrites of the model
AllowMasks == {0, CREATE_INSTANT_INVITE, CREATE_INSTANT_INVITE + MANAGE_CHANNELS}
DenyMasks == {0, CREATE_INSTANT_INVITE}

SeqsUpTo(S, n) == UNION { [1 .. k -> S] : k \in 0 .. n }

----------------------------------------------------------------------------
(* Collaborators of channel.ts *)

\* botHasPermission(guildID, permissions) of utils/permissions.ts: the guild's
\* answer, held in oracle as the set of <<guild id, permission>> it grants
botHasPermission(guildID, permissions) ==
    \A i \in 1 .. Len(permissions) : <<guildID, permissions[i]>> \in oracle

\* calculatePermissions(bits) of utils/permissions.ts: the permissions whose bit
\* is set in the mask
calculatePermissions(bits) == { p \in Permissions : BitAnd(bits, p) # 0 }

\* a call of RequestManager.get / post / patch
Request(method, endpoint, body) ==
    [method |-> method, endpoint |-> endpoint, body |-> body]

----------------------------------------------------------------------------
(* createChannel *)

overwritesOf(data) ==
    IF data.permission_overwrites = None THEN <<>> ELSE data.permission_overwrites[1]

\* mutant: the object is registered before nsfw and mention are set
createChannel_registersEarly(data) ==
    [ id |-> data.id,
      raw |-> data,
      guildID |-> data.guild_id,
      permissions |->
          [ i \in 1 .. Len(overwritesOf(data)) |->
              [ id |-> overwritesOf(data)[i].id,
                allow |-> calculatePermissions(overwritesOf(data)[i].allow),
                deny |-> calculatePermissions(overwritesOf(data)[i].deny) ] ] ]

\* the channel object built at lines 25-227
createChannel(data) ==
    [ id |-> data.id,
      raw |-> data,
      guildID |-> data.guild_id,
      permissions |->
          [ i \in 1 .. Len(overwritesOf(data)) |->
              [ id |-> overwritesOf(data)[i].id,
                allow |-> calculatePermissions(overwritesOf(data)[i].allow),
                deny |-> calculatePermissions(overwritesOf(data)[i].deny) ] ],
      nsfw |-> IF data.nsfw = None THEN FALSE ELSE data.nsfw[1],
      mention |-> <<"<#", data.id, ">">> ]

\* mutant: a field the new object lacks is kept from the object it replaces
updateChannelCache_merges(store, id, channel) ==
    IF store[id] = None THEN [store EXCEPT ![id] = Some(channel)]
    ELSE [ store EXCEPT ![id] =
             Some([ channel EXCEPT
                      !.guildID = IF @ = None THEN store[id][1].guildID ELSE @,
                      !.permissions = IF @ = <<>> THEN store[id][1].permissions ELSE @ ]) ]

\* updateChannelCache(data.id, channel)
updateChannelCache(store, id, channel) == [store EXCEPT ![id] = Some(channel)]

----------------------------------------------------------------------------
(* hasPermission *)

\* Array.prototype.find with the test perm.id === id, id possibly undefined:
\* the first element that passes, or undefined
find(list, id) ==
    LET hits == { i \in 1 .. Len(list) : Some(list[i].id) = id }
    IN  IF hits = {} THEN None
        ELSE Some(list[CHOOSE i \in hits : \A j \in hits : i <= j])

\* data.permission_overwrites?.find(...): undefined when there is no list
findIn(overwrites, id) == IF overwrites = None THEN None ELSE find(overwrites[1], id)

\* mutant: the guild id's overwrite is looked up before the id's
selectOverwrite_guildFirst(channel, id) ==
    IF findIn(channel.raw.permission_overwrites, channel.guildID) # None
    THEN findIn(channel.raw.permission_overwrites, channel.guildID)
    ELSE findIn(channel.raw.permission_overwrites, Some(id))

\* mutant: with no overwrite of the id or of the guild id, the first overwrite
\* of the list is used
selectOverwrite_defaultsToFirst(channel, id) ==
    IF findIn(channel.raw.permission_overwrites, Some(id)) # None
    THEN findIn(channel.raw.permission_overwrites, Some(id))
    ELSE IF findIn(channel.raw.permission_overwrites, channel.guildID) # None
    THEN findIn(channel.raw.permission_overwrites, channel.guildID)
    ELSE IF overwritesOf(channel.raw) # <<>> THEN Some(overwritesOf(channel.raw)[1])
    ELSE None

\* lines 56-59: the overwrite of the id, else the overwrite of the guild id
selectOverwrite(channel, id) ==
    IF findIn(channel.raw.permission_overwrites, Some(id)) # None
    THEN findIn(channel.raw.permission_overwrites, Some(id))
    ELSE findIn(channel.raw.permission_overwrites, channel.guildID)

\* mutant: the deny mask is not looked at
permPasses_ignoresDeny(overwrite, guildID, perm) ==
    IF BitAnd(overwrite.allow, perm) # 0 THEN TRUE
    ELSE IF guildID # None THEN botHasPermission(guildID[1], <<perm>>)
    ELSE FALSE

\* mutant: without a guild id nothing passes
permPasses_needsGuild(overwrite, guildID, perm) ==
    IF guildID = None THEN FALSE
    ELSE IF BitAnd(overwrite.deny, perm) # 0 THEN FALSE
    ELSE IF BitAnd(overwrite.allow, perm) # 0 THEN TRUE
    ELSE botHasPermission(guildID[1], <<perm>>)

\* lines 63-68: the callback of every, for one permission
permPasses(overwrite, guildID, perm) ==
    IF BitAnd(overwrite.deny, perm) # 0 THEN FALSE
    ELSE IF BitAnd(overwrite.allow, perm) # 0 THEN TRUE
    ELSE IF guildID # None THEN botHasPermission(guildID[1], <<perm>>)
    ELSE FALSE

\* lines 63-66: whether the callback reaches botHasPermission for the permission
permAsksGuild(overwrite, guildID, perm) ==
    /\ BitAnd(overwrite.deny, perm) = 0
    /\ BitAnd(overwrite.allow, perm) = 0
    /\ guildID # None

\* mutant: the callback is run on every element
visited_wholeList(overwrite, guildID, permissions) == Len(permissions)

\* Array.prototype.every: how many elements the callback is run on (it stops
\* after the first one that fails)
visited(overwrite, guildID, permissions) ==
    LET fails == { i \in 1 .. Len(permissions) :
                     ~permPasses(overwrite, guildID, permissions[i]) }
    IN  IF fails = {} THEN Len(permissions)
        ELSE CHOOSE i \in fails : \A j \in fails : i <= j

\* the botHasPermission calls of the first n runs of the callback, in order
RECURSIVE askedBy(_, _, _, _)
askedBy(overwrite, guildID, permissions, n) ==
    IF n = 0 THEN <<>>
    ELSE askedBy(overwrite, guildID, permissions, n - 1) \o
         (IF permAsksGuild(overwrite, guildID, permissions[n])
          THEN << <<guildID[1], permissions[n]>> >>
          ELSE <<>>)

\* lines 55-70: the value returned and the botHasPermission calls made, in order
hasPermission(channel, id, permissions) ==
    LET overwrite == selectOverwrite(channel, id)
    IN  IF overwrite = None THEN [value |-> FALSE, consulted |-> <<>>]
        ELSE LET n == visited(overwrite[1], channel.guildID, permissions)
             IN  [ value |-> \/ n = 0
                             \/ /\ n = Len(permissions)
                                /\ permPasses(overwrite[1], channel.guildID,
                                              permissions[n]),
                   consulted |-> askedBy(overwrite[1], channel.guildID, permissions, n) ]

----------------------------------------------------------------------------
(* The methods that call RequestManager *)

(* What one call of a method did: how it ended (kind), the Errors member it
   threw, the RequestManager calls it made, the botHasPermission calls it made
   (guild id and permission, in order), the logYellow calls it made, and the
   caller's ids array as the call left it (deleteMessages). *)
Outcome(kind, error, requests, consulted, warnings, ids) ==
    [ kind |-> kind, error |-> error, requests |-> requests,
      consulted |-> consulted, warnings |-> warnings, ids |-> ids ]

\* a throw: on every path of these methods it comes before the RequestManager call
Thrown(error, consulted, ids) == Outcome("thrown", error, <<>>, consulted, 0, ids)

\* a return of (or an await on) the RequestManager call
Dispatched(request, consulted, warnings, ids) ==
    Outcome("dispatched", "", <<request>>, consulted, warnings, ids)

\* a return without a RequestManager call
Returned(consulted) == Outcome("returned", "", <<>>, consulted, 0, <<>>)

\* the botHasPermission call for one permission, as an entry of consulted
Ask(guild, perm) == <<guild, perm>>

\* mutant: READ_MESSAGE_HISTORY is asked for before VIEW_CHANNEL
getMessage_historyFirst(data, id) ==
    LET g == data.guild_id
        req == Request("GET", <<"CHANNEL_MESSAGE", data.id, id>>, None)
    IN  IF g = None THEN Dispatched(req, <<>>, 0, <<>>)
        ELSE IF ~botHasPermission(g[1], <<READ_MESSAGE_HISTORY>>)
        THEN Thrown("MISSING_READ_MESSAGE_HISTORY",
                    <<Ask(g[1], READ_MESSAGE_HISTORY)>>, <<>>)
        ELSE IF ~botHasPermission(g[1], <<VIEW_CHANNEL>>)
        THEN Thrown("MISSING_VIEW_CHANNEL",
                    <<Ask(g[1], READ_MESSAGE_HISTORY), Ask(g[1], VIEW_CHANNEL)>>, <<>>)
        ELSE Dispatched(req,
                        <<Ask(g[1], READ_MESSAGE_HISTORY), Ask(g[1], VIEW_CHANNEL)>>,
                        0, <<>>)

\* lines 72-92
getMessage(data, id) ==
    LET g == data.guild_id
        req == Request("GET", <<"CHANNEL_MESSAGE", data.id, id>>, None)
    IN  IF g = None THEN Dispatched(req, <<>>, 0, <<>>)
        ELSE IF ~botHasPermission(g[1], <<VIEW_CHANNEL>>)
        THEN Thrown("MISSING_VIEW_CHANNEL", <<Ask(g[1], VIEW_CHANNEL)>>, <<>>)
        ELSE IF ~botHasPermission(g[1], <<READ_MESSAGE_HISTORY>>)
        THEN Thrown("MISSING_READ_MESSAGE_HISTORY",
                    <<Ask(g[1], VIEW_CHANNEL), Ask(g[1], READ_MESSAGE_HISTORY)>>, <<>>)
        ELSE Dispatched(req,
                        <<Ask(g[1], VIEW_CHANNEL), Ask(g[1], READ_MESSAGE_HISTORY)>>,
                        0, <<>>)

\* mutant: a limit of 100 is refused too
limitTooHigh_inclusive(options) ==
    /\ options # None
    /\ options[1].limit # None
    /\ options[1].limit[1] # 0
    /\ options[1].limit[1] >= GET_MESSAGES_MAX

\* line 117: options?.limit && options.limit > 100
limitTooHigh(options) ==
    /\ options # None
    /\ options[1].limit # None
    /\ options[1].limit[1] # 0
    /\ options[1].limit[1] > GET_MESSAGES_MAX

\* mutant: the limit is looked at before the permissions
getMessages_limitFirst(data, options) ==
    LET g == data.guild_id
        req == Request("GET", <<"CHANNEL_MESSAGES", data.id>>, options)
        asked == IF g = None THEN <<>>
                 ELSE <<Ask(g[1], VIEW_CHANNEL), Ask(g[1], READ_MESSAGE_HISTORY)>>
    IN  IF limitTooHigh(options) THEN Returned(<<>>)
        ELSE IF g # None /\ ~botHasPermission(g[1], <<VIEW_CHANNEL>>)
        THEN Thrown("MISSING_VIEW_CHANNEL", <<Ask(g[1], VIEW_CHANNEL)>>, <<>>)
        ELSE IF g # None /\ ~botHasPermission(g[1], <<READ_MESSAGE_HISTORY>>)
        THEN Thrown("MISSING_READ_MESSAGE_HISTORY", asked, <<>>)
        ELSE Dispatched(req, asked, 0, <<>>)

\* lines 94-124
getMessages(data, options) ==
    LET g == data.guild_id
        req == Request("GET", <<"CHANNEL_MESSAGES", data.id>>, options)
        asked == IF g = None THEN <<>>
                 ELSE <<Ask(g[1], VIEW_CHANNEL), Ask(g[1], READ_MESSAGE_HISTORY)>>
    IN  IF g # None /\ ~botHasPermission(g[1], <<VIEW_CHANNEL>>)
        THEN Thrown("MISSING_VIEW_CHANNEL", <<Ask(g[1], VIEW_CHANNEL)>>, <<>>)
        ELSE IF g # None /\ ~botHasPermission(g[1], <<READ_MESSAGE_HISTORY>>)
        THEN Thrown("MISSING_READ_MESSAGE_HISTORY", asked, <<>>)
        ELSE IF limitTooHigh(options) THEN Returned(asked)
        ELSE Dispatched(req, asked, 0, <<>>)

\* lines 126-131
getPins(data) ==
    Dispatched(Request("GET", <<"CHANNEL_PINS", data.id>>, None), <<>>, 0, <<>>)

\* typeof content === "string": a string is held as [length |-> n], a
\* MessageContent as [content |-> optional string, tts |-> optional boolean]
isString(content) == DOMAIN content = {"length"}

\* line 134
normalize(content) ==
    IF isString(content) THEN [content |-> Some(content), tts |-> None] ELSE content

\* mutant: a content of 2000 characters is refused too
contentTooLong_inclusive(content) ==
    /\ content.content # None
    /\ content.content[1].length # 0
    /\ content.content[1].length >= MESSAGE_MAX_LENGTH

\* line 153: content.content && content.content.length > 2000
contentTooLong(content) ==
    /\ content.content # None
    /\ content.content[1].length # 0
    /\ content.content[1].length > MESSAGE_MAX_LENGTH

\* mutant: the message is posted before its length is checked
sendMessage_postsFirst(data, content) ==
    LET g == data.guild_id
        body == normalize(content)
        tts == body.tts = Some(TRUE)
        req == Request("POST", <<"CHANNEL_MESSAGES", data.id>>, Some(body))
        asked == IF g = None THEN <<>>
                 ELSE IF tts
                 THEN <<Ask(g[1], SEND_MESSAGES), Ask(g[1], SEND_TTS_MESSAGES)>>
                 ELSE <<Ask(g[1], SEND_MESSAGES)>>
    IN  IF g # None /\ ~botHasPermission(g[1], <<SEND_MESSAGES>>)
        THEN Thrown("MISSING_SEND_MESSAGES", <<Ask(g[1], SEND_MESSAGES)>>, <<>>)
        ELSE IF g # None /\ tts /\ ~botHasPermission(g[1], <<SEND_TTS_MESSAGES>>)
        THEN Thrown("MISSING_SEND_TTS_MESSAGE", asked, <<>>)
        ELSE IF contentTooLong(body)
        THEN Outcome("thrown", "MESSAGE_MAX_LENGTH", <<req>>, asked, 0, <<>>)
        ELSE Dispatched(req, asked, 0, <<>>)

\* mutant: SEND_TTS_MESSAGES is not asked for
sendMessage_skipsTts(data, content) ==
    LET g == data.guild_id
        body == normalize(content)
        req == Request("POST", <<"CHANNEL_MESSAGES", data.id>>, Some(body))
        asked == IF g = None THEN <<>> ELSE <<Ask(g[1], SEND_MESSAGES)>>
    IN  IF g # None /\ ~botHasPermission(g[1], <<SEND_MESSAGES>>)
        THEN Thrown("MISSING_SEND_MESSAGES", asked, <<>>)
        ELSE IF contentTooLong(body) THEN Thrown("MESSAGE_MAX_LENGTH", asked, <<>>)
        ELSE Dispatched(req, asked, 0, <<>>)

\* lines 133-163
sendMessage(data, content) ==
    LET g == data.guild_id
        body == normalize(content)
        tts == body.tts = Some(TRUE)
        req == Request("POST", <<"CHANNEL_MESSAGES", data.id>>, Some(body))
        asked == IF g = None THEN <<>>
                 ELSE IF tts
                 THEN <<Ask(g[1], SEND_MESSAGES), Ask(g[1], SEND_TTS_MESSAGES)>>
                 ELSE <<Ask(g[1], SEND_MESSAGES)>>
    IN  IF g # None /\ ~botHasPermission(g[1], <<SEND_MESSAGES>>)
        THEN Thrown("MISSING_SEND_MESSAGES", <<Ask(g[1], SEND_MESSAGES)>>, <<>>)
        ELSE IF g # None /\ tts /\ ~botHasPermission(g[1], <<SEND_TTS_MESSAGES>>)
        THEN Thrown("MISSING_SEND_TTS_MESSAGE", asked, <<>>)
        ELSE IF contentTooLong(body) THEN Thrown("MESSAGE_MAX_LENGTH", asked, <<>>)
        ELSE Dispatched(req, asked, 0, <<>>)

\* mutant: splice(1, count)
spliced_fromSecond(ids, count) ==
    SubSeq(ids, 2, IF Len(ids) < count + 1 THEN Len(ids) ELSE count + 1)

\* Array.prototype.splice(0, count): the elements removed, and the array left
spliced(ids, count) == SubSeq(ids, 1, IF Len(ids) < count THEN Len(ids) ELSE count)

\* mutant: slice(0, count), which leaves the array as it was
afterSplice_keepsAll(ids, count) == ids

afterSplice(ids, count) ==
    SubSeq(ids, (IF Len(ids) < count THEN Len(ids) ELSE count) + 1, Len(ids))

\* mutant: one id is enough
deleteMessages_minOne(data, ids, reason) ==
    LET g == data.guild_id
        asked == IF g = None THEN <<>> ELSE <<Ask(g[1], MANAGE_MESSAGES)>>
        req == Request("POST", <<"CHANNEL_BULK_DELETE", data.id>>,
                       Some([ messages |-> spliced(ids, DELETE_MESSAGES_MAX),
                              reason |-> reason ]))
    IN  IF g # None /\ ~botHasPermission(g[1], <<MANAGE_MESSAGES>>)
        THEN Thrown("MISSING_MANAGE_MESSAGES", asked, ids)
        ELSE IF Len(ids) < DELETE_MESSAGES_MIN - 1
        THEN Thrown("DELETE_MESSAGES_MIN", asked, ids)
        ELSE Dispatched(req, asked,
                        IF Len(ids) > DELETE_MESSAGES_MAX THEN 1 ELSE 0,
                        afterSplice(ids, DELETE_MESSAGES_MAX))

\* lines 166-185
deleteMessages(data, ids, reason) ==
    LET g == data.guild_id
        asked == IF g = None THEN <<>> ELSE <<Ask(g[1], MANAGE_MESSAGES)>>
        req == Request("POST", <<"CHANNEL_BULK_DELETE", data.id>>,
                       Some([ messages |-> spliced(ids, DELETE_MESSAGES_MAX),
                              reason |-> reason ]))
    IN  IF g # None /\ ~botHasPermission(g[1], <<MANAGE_MESSAGES>>)
        THEN Thrown("MISSING_MANAGE_MESSAGES", asked, ids)
        ELSE IF Len(ids) < DELETE_MESSAGES_MIN
        THEN Thrown("DELETE_MESSAGES_MIN", asked, ids)
        ELSE Dispatched(req, asked,
                        IF Len(ids) > DELETE_MESSAGES_MAX THEN 1 ELSE 0,
                        afterSplice(ids, DELETE_MESSAGES_MAX))

\* mutant: an overwrite that denies MANAGE_CHANNELS refuses the call too
getInvites_honoursOverwrites(data) ==
    LET g == data.guild_id
        asked == IF g = None THEN <<>> ELSE <<Ask(g[1], MANAGE_CHANNELS)>>
    IN  IF g # None /\ ~botHasPermission(g[1], <<MANAGE_CHANNELS>>)
        THEN Thrown("MISSING_MANAGE_CHANNELS", asked, <<>>)
        ELSE IF \E i \in 1 .. Len(overwritesOf(data)) :
                    BitAnd(overwritesOf(data)[i].deny, MANAGE_CHANNELS) # 0
        THEN Thrown("MISSING_MANAGE_CHANNELS", asked, <<>>)
        ELSE Dispatched(Request("GET", <<"CHANNEL_INVITES", data.id>>, None),
                        asked, 0, <<>>)

\* lines 187-195
getInvites(data) ==
    LET g == data.guild_id
        asked == IF g = None THEN <<>> ELSE <<Ask(g[1], MANAGE_CHANNELS)>>
    IN  IF g # None /\ ~botHasPermission(g[1], <<MANAGE_CHANNELS>>)
        THEN Thrown("MISSING_MANAGE_CHANNELS", asked, <<>>)
        ELSE Dispatched(Request("GET", <<"CHANNEL_INVITES", data.id>>, None),
                        asked, 0, <<>>)

\* lines 197-208
createInvite(data, options) ==
    LET g == data.guild_id
        asked == IF g = None THEN <<>> ELSE <<Ask(g[1], CREATE_INSTANT_INVITE)>>
    IN  IF g # None /\ ~botHasPermission(g[1], <<CREATE_INSTANT_INVITE>>)
        THEN Thrown("MISSING_CREATE_INSTANT_INVITE", asked, <<>>)
        ELSE Dispatched(Request("POST", <<"CHANNEL_INVITES", data.id>>, Some(options)),
                        asked, 0, <<>>)

\* mutant: the guild is asked whether or not the channel has one
getWebhooks_gatesEveryChannel(data) ==
    LET g == IF data.guild_id = None THEN "" ELSE data.guild_id[1]
        asked == <<Ask(g, MANAGE_WEBHOOKS)>>
    IN  IF ~botHasPermission(g, <<MANAGE_WEBHOOKS>>)
        THEN Thrown("MISSING_MANAGE_WEBHOOKS", asked, <<>>)
        ELSE Dispatched(Request("GET", <<"CHANNEL_WEBHOOKS", data.id>>, None),
                        asked, 0, <<>>)

\* lines 210-218
getWebhooks(data) ==
    LET g == data.guild_id
        asked == IF g = None THEN <<>> ELSE <<Ask(g[1], MANAGE_WEBHOOKS)>>
    IN  IF g # None /\ ~botHasPermission(g[1], <<MANAGE_WEBHOOKS>>)
        THEN Thrown("MISSING_MANAGE_WEBHOOKS", asked, <<>>)
        ELSE Dispatched(Request("GET", <<"CHANNEL_WEBHOOKS", data.id>>, None),
                        asked, 0, <<>>)

\* lines 219-221
edit(data, options) ==
    Dispatched(Request("PATCH", <<"GUILD_CHANNELS", data.id>>, Some(options)),
               <<>>, 0, <<>>)

----------------------------------------------------------------------------
(* Inputs *)

Overwrites == [id : OverwriteIds, allow : AllowMasks, deny : DenyMasks]

\* payloads of the channels hasPermission is asked about
ResolvePayloads ==
    [ id : ChannelIds,
      guild_id : {None} \cup { Some(g) : g \in GuildIds },
      permission_overwrites :
          {None} \cup { Some(l) : l \in SeqsUpTo(Overwrites, MaxOverwrites) },
      nsfw : {None} ]

\* an overwrite of the guild id that denies every permission the methods ask for
DenyAll(g) == [id |-> g, allow |-> 0, deny |-> SumOf(Permissions)]

\* payloads of the channels whose methods are called
MethodPayloads ==
    [ id : ChannelIds,
      guild_id : {None} \cup { Some(g) : g \in GuildIds },
      permission_overwrites : {None} \cup { Some(<<DenyAll(g)>>) : g \in GuildIds },
      nsfw : {None} ]

RequiredLists == SeqsUpTo(OverwriteBits, MaxRequired)

MessageIds == {"100"}

GetMessagesOptions ==
    {None} \cup
    { Some([limit |-> l]) :
        l \in {None} \cup { Some(n) : n \in Low \cup Near(GET_MESSAGES_MAX) } }

Strings == { [length |-> n] : n \in Low \cup Near(MESSAGE_MAX_LENGTH) }

Contents ==
    Strings \cup
    [ content : {None} \cup { Some(t) : t \in Strings },
      tts : {None, Some(FALSE), Some(TRUE)} ]

\* arrays of n distinct message ids, in rising and in falling order; n ranges
\* around the two thresholds and around the length that leaves a second call
\* of deleteMessages just enough ids
IdLists ==
    UNION { { [i \in 1 .. n |-> i], [i \in 1 .. n |-> n + 1 - i] } :
              n \in (0 .. DELETE_MESSAGES_MIN + Slack) \cup Near(DELETE_MESSAGES_MAX)
                     \cup Near(DELETE_MESSAGES_MAX + DELETE_MESSAGES_MIN) }

Reasons == {None, Some("spam")}
InviteOptions == { [unique |-> b] : b \in BOOLEAN }
EditOptions == { [name |-> n] : n \in {"general", "random"} }

----------------------------------------------------------------------------
(* State *)

(* cache: the channel cache of module/client.ts, channel id -> optional channel.
   oracle: the <<guild id, permission>> pairs botHasPermission answers true for.
   last: the call of a method of a cached channel that has just run, until its
   caller has the outcome: its name, the channel id, its arguments, what it
   did, and the value hasPermission returned.  The synchronous part of a call
   runs to its end before anything else does, so calls are made one at a time
   and cache and oracle are, while last holds a call, those of the call.
   tasks: the calls of methods whose callers have not yet taken their result,
   each with what RequestManager answered and what the caller gets.
   created: for each channel id, the payload of the latest createChannel call
   with that id (a history of the calls, which the program does not keep). *)
NoCall ==
    [op |-> "", channel |-> "", args |-> <<>>, out |-> Returned(<<>>), value |-> None]

Call(op, c, args, out) ==
    [op |-> op, channel |-> c, args |-> args, out |-> out, value |-> None]

EmptyCache == [c \in ChannelIds |-> None]

NoTasks == [t \in 1 .. MaxTasks |-> None]

\* the state after createChannel(data) for one payload
InitWith(payloads, perms) ==
    /\ \E data \in payloads :
          /\ cache = updateChannelCache(EmptyCache, data.id, createChannel(data))
          /\ created = [c \in ChannelIds |-> IF c = data.id THEN Some(data) ELSE None]
    /\ oracle \in SUBSET (GuildIds \X perms)
    /\ last = NoCall
    /\ tasks = NoTasks

Init == InitWith(MethodPayloads, Permissions)

InitResolve == InitWith(ResolvePayloads, OverwriteBits)

\* the closure variable data of the cached channel c
Data(c) == cache[c][1].raw

----------------------------------------------------------------------------
(* Actions *)

\* the guild's answer for one permission changes
SetOracle(perms) ==
    /\ last = NoCall
    /\ \E g \in GuildIds, p \in perms :
          oracle' = IF <<g, p>> \in oracle THEN oracle \ {<<g, p>>}
                    ELSE oracle \cup {<<g, p>>}
    /\ UNCHANGED <<cache, last, tasks, created>>

HasPermission ==
    \E c \in ChannelIds, id \in ActorIds, permissions \in RequiredLists :
        /\ last = NoCall
        /\ cache[c] # None
        /\ LET r == hasPermission(cache[c][1], id, permissions)
           IN  last' = [ op |-> "hasPermission", channel |-> c,
                         args |-> <<id, permissions>>,
                         out |-> Returned(r.consulted), value |-> Some(r.value) ]
        /\ UNCHANGED <<cache, oracle, tasks, created>>

GetMessage ==
    \E c \in ChannelIds, id \in MessageIds :
        /\ last = NoCall
        /\ cache[c] # None
        /\ last' = Call("getMessage", c, <<id>>, getMessage(Data(c), id))
        /\ UNCHANGED <<cache, oracle, tasks, created>>

GetMessages ==
    \E c \in ChannelIds, options \in GetMessagesOptions :
        /\ last = NoCall
        /\ cache[c] # None
        /\ last' = Call("getMessages", c, <<options>>, getMessages(Data(c), options))
        /\ UNCHANGED <<cache, oracle, tasks, created>>

GetPins ==
    \E c \in ChannelIds :
        /\ last = NoCall
        /\ cache[c] # None
        /\ last' = Call("getPins", c, <<>>, getPins(Data(c)))
        /\ UNCHANGED <<cache, oracle, tasks, created>>

SendMessage ==
    \E c \in ChannelIds, content \in Contents :
        /\ last = NoCall
        /\ cache[c] # None
        /\ last' = Call("sendMessage", c, <<content>>, sendMessage(Data(c), content))
        /\ UNCHANGED <<cache, oracle, tasks, created>>

DeleteMessages ==
    \E c \in ChannelIds, ids \in IdLists, reason \in Reasons :
        /\ last = NoCall
        /\ cache[c] # None
        /\ last' = Call("deleteMessages", c, <<ids, reason>>,
                        deleteMessages(Data(c), ids, reason))
        /\ UNCHANGED <<cache, oracle, tasks, created>>

GetInvites ==
    \E c \in ChannelIds :
        /\ last = NoCall
        /\ cache[c] # None
        /\ last' = Call("getInvites", c, <<>>, getInvites(Data(c)))
        /\ UNCHANGED <<cache, oracle, tasks, created>>

CreateInvite ==
    \E c \in ChannelIds, options \in InviteOptions :
        /\ last = NoCall
        /\ cache[c] # None
        /\ last' = Call("createInvite", c, <<options>>, createInvite(Data(c), options))
        /\ UNCHANGED <<cache, oracle, tasks, created>>

GetWebhooks ==
    \E c \in ChannelIds :
        /\ last = NoCall
        /\ cache[c] # None
        /\ last' = Call("getWebhooks", c, <<>>, getWebhooks(Data(c)))
        /\ UNCHANGED <<cache, oracle, tasks, created>>

Edit ==
    \E c \in ChannelIds, options \in EditOptions :
        /\ last = NoCall
        /\ cache[c] # None
        /\ last' = Call("edit", c, <<options>>, edit(Data(c), options))
        /\ UNCHANGED <<cache, oracle, tasks, created>>

\* the caller has the outcome of its call; the next call can be made
Return ==
    /\ last # NoCall
    /\ last' = NoCall
    /\ UNCHANGED <<cache, oracle, tasks, created>>

OracleChanges == SetOracle(Permissions)

Next ==
    \/ GetMessage
    \/ GetMessages
    \/ GetPins
    \/ SendMessage
    \/ DeleteMessages
    \/ GetInvites
    \/ CreateInvite
    \/ GetWebhooks
    \/ Edit
    \/ OracleChanges
    \/ Return

Spec == Init /\ [][Next]_vars

ResolveOracleChanges == SetOracle(OverwriteBits)

NextResolve ==
    \/ HasPermission
    \/ ResolveOracleChanges
    \/ Return

SpecResolve == InitResolve /\ [][NextResolve]_vars

----------------------------------------------------------------------------
(* Calls in flight.  A method runs without a break up to its call of
   RequestManager, whose promise it awaits or returns; its caller waits
   until RequestManager answers.  Meanwhile other methods are called,
   channels are created and the guild's answers change. *)

\* createMessage(result) of structures/message.ts
createMessage(result) == [message |-> result]

\* the answers of RequestManager: a raw result, or a failure
Fulfilled(value) == [ok |-> TRUE, value |-> value]
Rejected(reason) == [ok |-> FALSE, value |-> reason]

TransportErrors == {"HTTP 500"}

\* the channel payload the API returns for a patch: here the overwrites are
\* gone and nsfw is set
Patched(data) ==
    [ id |-> data.id, guild_id |-> data.guild_id,
      permission_overwrites |-> None, nsfw |-> Some(TRUE) ]

\* the raw results RequestManager can give a method of the channel
RawResults(op, data) ==
    CASE op \in {"getMessage", "sendMessage"} -> { [id |-> "100"] }
      [] op = "edit" -> { Patched(data) }
      [] OTHER -> { <<>> }

\* the synchronous part of a call of a method of the channel
run(op, channel, args) ==
    CASE op = "getMessage" -> getMessage(channel.raw, args[1])
      [] op = "sendMessage" -> sendMessage(channel.raw, args[1])
      [] op = "deleteMessages" -> deleteMessages(channel.raw, args[1], args[2])
      [] op = "edit" -> edit(channel.raw, args[1])
      [] op = "hasPermission" ->
            Returned(hasPermission(channel, args[1], args[2]).consulted)

(* A call from its synchronous part on: it waits for RequestManager when it
   has called it, and otherwise its caller has the Errors member thrown or the
   value returned at once. *)
start(op, channel, args) ==
    LET out == run(op, channel, args)
    IN  [ op |-> op, data |-> channel.raw, args |-> args, out |-> out,
          state |-> CASE out.kind = "dispatched" -> "awaiting"
                      [] out.kind = "thrown" -> "rejected"
                      [] OTHER -> "fulfilled",
          result |-> IF out.kind = "thrown" THEN Some(out.error)
                     ELSE IF op = "hasPermission"
                     THEN Some(hasPermission(channel, args[1], args[2]).value)
                     ELSE None,
          response |-> None ]

\* mutant: a failure of RequestManager is replaced by an error of the method
settle_masksFailure(op, data, response) ==
    [ state |-> IF response.ok THEN "fulfilled" ELSE "rejected",
      result |->
          IF ~response.ok THEN Some("REQUEST_FAILED")
          ELSE IF op \in {"getMessage", "sendMessage"}
          THEN Some(createMessage(response.value))
          ELSE Some(response.value),
      requests |-> <<>>,
      puts |-> <<>> ]

\* mutant: edit registers the channel built from the patch result
settle_editUpdatesCache(op, data, response) ==
    [ state |-> IF response.ok THEN "fulfilled" ELSE "rejected",
      result |->
          IF response.ok /\ op \in {"getMessage", "sendMessage"}
          THEN Some(createMessage(response.value))
          ELSE Some(response.value),
      requests |-> <<>>,
      puts |-> IF response.ok /\ op = "edit"
               THEN <<[id |-> data.id, channel |-> createChannel(response.value)]>>
               ELSE <<>> ]

(* The rest of a call once RequestManager has answered: how the caller's
   promise ends and with what, the further RequestManager calls made, and the
   updateChannelCache calls made.  A failure rejects the awaited or returned
   promise as it is; getMessage and sendMessage hand the result to
   createMessage, the other methods return it as it is. *)
settle(op, data, response) ==
    [ state |-> IF response.ok THEN "fulfilled" ELSE "rejected",
      result |->
          IF response.ok /\ op \in {"getMessage", "sendMessage"}
          THEN Some(createMessage(response.value))
          ELSE Some(response.value),
      requests |-> <<>>,
      puts |-> <<>> ]

\* the cache after the updateChannelCache calls, in order
RECURSIVE putAll(_, _)
putAll(store, puts) ==
    IF puts = <<>> THEN store
    ELSE putAll(updateChannelCache(store, puts[1].id, puts[1].channel), Tail(puts))

\* the payloads channels are created from: a guild channel with an overwrite
\* that denies MANAGE_CHANNELS and with nsfw set, and a channel without guild
\* id, overwrites or nsfw
TaskPayloads ==
    UNION { { [ id |-> c, guild_id |-> Some(g),
                permission_overwrites |->
                    Some(<<[id |-> g, allow |-> 0, deny |-> MANAGE_CHANNELS]>>),
                nsfw |-> Some(TRUE) ],
              [ id |-> c, guild_id |-> None,
                permission_overwrites |-> None, nsfw |-> None ] } :
            c \in CachedIds, g \in GuildIds }

\* the methods called while calls are in flight, and their arguments
TaskOps == {"getMessage", "sendMessage", "deleteMessages", "edit", "hasPermission"}

TaskArgs(op) ==
    CASE op = "getMessage" -> { <<id>> : id \in MessageIds }
      [] op = "sendMessage" -> { <<[length |-> 1]>> }
      [] op = "deleteMessages" ->
            { <<[i \in 1 .. n |-> i], None>> :
                n \in {DELETE_MESSAGES_MIN - 1, DELETE_MESSAGES_MIN} }
      [] op = "edit" -> { <<[name |-> "general"]>> }
      [] op = "hasPermission" -> { <<g, <<MANAGE_CHANNELS>> >> : g \in GuildIds }

\* the permissions whose answer changes while calls are in flight
TaskPermissions == {VIEW_CHANNEL, SEND_MESSAGES}

\* nothing is cached when the module is loaded
InitTasks ==
    /\ cache = [c \in CachedIds |-> None]
    /\ created = [c \in CachedIds |-> None]
    /\ oracle \in { (GuildIds \X (Permissions \ TaskPermissions)) \cup granted :
                      granted \in SUBSET (GuildIds \X TaskPermissions) }
    /\ last = NoCall
    /\ tasks = NoTasks

\* createChannel(data): the object is built, then registered under data.id
Create ==
    \E data \in TaskPayloads :
        /\ cache' = updateChannelCache(cache, data.id, createChannel(data))
        /\ created' = [created EXCEPT ![data.id] = Some(data)]
        /\ UNCHANGED <<oracle, last, tasks>>

\* a method of a cached channel is called and runs up to its first break
Invoke ==
    \E c \in CachedIds, op \in TaskOps :
        \E args \in TaskArgs(op) :
            /\ cache[c] # None
            /\ \E t \in 1 .. MaxTasks :
                  /\ tasks[t] = None
                  /\ \A u \in 1 .. t - 1 : tasks[u] # None
                  /\ tasks' = [tasks EXCEPT ![t] = Some(start(op, cache[c][1], args))]
            /\ UNCHANGED <<cache, oracle, last, created>>

\* RequestManager answers a call in flight and the rest of the method runs
TransportAnswers ==
    \E t \in 1 .. MaxTasks :
        /\ tasks[t] # None
        /\ tasks[t][1].state = "awaiting"
        /\ \E ok \in BOOLEAN :
            \E v \in IF ok THEN RawResults(tasks[t][1].op, tasks[t][1].data)
                     ELSE TransportErrors :
              LET response == IF ok THEN Fulfilled(v) ELSE Rejected(v)
                  s == settle(tasks[t][1].op, tasks[t][1].data, response)
              IN  /\ tasks' =
                        [ tasks EXCEPT ![t] =
                            Some([ tasks[t][1] EXCEPT
                                     !.state = s.state,
                                     !.result = s.result,
                                     !.response = Some(response),
                                     !.out.requests = @ \o s.requests ]) ]
                  /\ cache' = putAll(cache, s.puts)
        /\ UNCHANGED <<oracle, last, created>>

\* the caller of a call that has ended takes its result
Collect ==
    \E t \in 1 .. MaxTasks :
        /\ tasks[t] # None
        /\ tasks[t][1].state # "awaiting"
        /\ tasks' = [tasks EXCEPT ![t] = None]
        /\ UNCHANGED <<cache, oracle, last, created>>

TaskOracleChanges == SetOracle(TaskPermissions)

NextTasks ==
    \/ Create
    \/ Invoke
    \/ TransportAnswers
    \/ Collect
    \/ TaskOracleChanges

SpecTasks == InitTasks /\ [][NextTasks]_vars

----------------------------------------------------------------------------
(* The statements checked.  Their vocabulary is defined here from the
   statements themselves, apart from the definitions above. *)

Called(op) == last.op = op
Channel == cache[last.channel][1]
GuildOf == Channel.guildID
OverwriteList == overwritesOf(Channel.raw)

\* membership of one permission bit in a mask
Has(mask, flag) == (mask \div flag) % 2 = 1

\* the guild grants the permission (no guild grants nothing)
Granted(guild, flag) == guild # None /\ <<guild[1], flag>> \in oracle

\* the first overwrite of the list whose target is id, if any
FirstFor(list, id) ==
    LET at == { i \in 1 .. Len(list) : list[i].id = id }
    IN  IF at = {} THEN None
        ELSE Some(list[CHOOSE i \in at : \A j \in at : i <= j])

HasFor(list, id) == \E i \in 1 .. Len(list) : list[i].id = id

\* the two-step lookup: the actor's overwrite, else the guild id's
Selected(list, actor, guild) ==
    IF HasFor(list, actor) THEN FirstFor(list, actor)
    ELSE IF guild # None /\ HasFor(list, guild[1]) THEN FirstFor(list, guild[1])
    ELSE None

\* what one overwrite yields for a list of required flags
Yields(overwrite, guild, required) ==
    \A i \in 1 .. Len(required) :
        /\ ~Has(overwrite.deny, required[i])
        /\ Has(overwrite.allow, required[i]) \/ Granted(guild, required[i])

Actor == last.args[1]
Required == last.args[2]

(* C1: hasPermission returns true if and only if every required flag is absent
   from the selected overwrite's deny mask and is either present in its allow
   mask or granted by the guild, whenever the lookup selects an overwrite. *)
C1_ResolveIff ==
    (Called("hasPermission") /\ Selected(OverwriteList, Actor, GuildOf) # None) =>
        (last.value = Some(TRUE)) <=>
            Yields(Selected(OverwriteList, Actor, GuildOf)[1], GuildOf, Required)

\* a call that returns true on two flags, one by the allow mask, one by the guild
C1_Witness ==
    /\ Called("hasPermission")
    /\ Selected(OverwriteList, Actor, GuildOf) # None
    /\ last.value = Some(TRUE)
    /\ Len(Required) = 2
    /\ \E i, j \in 1 .. 2 :
          /\ Has(Selected(OverwriteList, Actor, GuildOf)[1].allow, Required[i])
          /\ ~Has(Selected(OverwriteList, Actor, GuildOf)[1].allow, Required[j])
          /\ Granted(GuildOf, Required[j])

(* C2: hasPermission returns false, and asks the guild nothing, when no
   overwrite targets the actor id and none targets the channel's guild id. *)
C2_NoOverwriteDenies ==
    ( /\ Called("hasPermission")
      /\ ~HasFor(OverwriteList, Actor)
      /\ GuildOf = None \/ ~HasFor(OverwriteList, GuildOf[1]) ) =>
        /\ last.value = Some(FALSE)
        /\ last.out.consulted = <<>>

\* no overwrite matches, the list is not empty, and the guild grants every
\* required flag
C2_Witness ==
    /\ Called("hasPermission")
    /\ ~HasFor(OverwriteList, Actor)
    /\ GuildOf # None
    /\ ~HasFor(OverwriteList, GuildOf[1])
    /\ OverwriteList # <<>>
    /\ Required # <<>>
    /\ \A i \in 1 .. Len(Required) : Granted(GuildOf, Required[i])
    /\ last.value = Some(FALSE)

(* C3: the overwrite used is the first one of the actor id; the first one of
   the guild id is used only when the actor id has none.  So the result is what
   the actor's overwrite yields when both exist, and what the guild id's
   overwrite yields when only that one exists. *)
C3_LookupOrder ==
    Called("hasPermission") =>
        /\ HasFor(OverwriteList, Actor) =>
              (last.value = Some(TRUE)) <=>
                  Yields(FirstFor(OverwriteList, Actor)[1], GuildOf, Required)
        /\ ( /\ ~HasFor(OverwriteList, Actor)
             /\ GuildOf # None
             /\ HasFor(OverwriteList, GuildOf[1]) ) =>
              (last.value = Some(TRUE)) <=>
                  Yields(FirstFor(OverwriteList, GuildOf[1])[1], GuildOf, Required)

\* both overwrites exist, the guild id's comes first in the list and would
\* yield false, the actor's yields true, and the call returns true
C3_Witness ==
    /\ Called("hasPermission")
    /\ GuildOf # None
    /\ Actor # GuildOf[1]
    /\ Len(OverwriteList) = 2
    /\ OverwriteList[1].id = GuildOf[1]
    /\ OverwriteList[2].id = Actor
    /\ Required # <<>>
    /\ ~Yields(OverwriteList[1], GuildOf, Required)
    /\ Yields(OverwriteList[2], GuildOf, Required)
    /\ last.value = Some(TRUE)

----------------------------------------------------------------------------
(* The guarded methods *)

GuardedOps ==
    { "getMessage", "getMessages", "sendMessage", "deleteMessages",
      "getInvites", "createInvite", "getWebhooks" }

PermissionErrors ==
    { "MISSING_VIEW_CHANNEL", "MISSING_READ_MESSAGE_HISTORY", "MISSING_SEND_MESSAGES",
      "MISSING_SEND_TTS_MESSAGE", "MISSING_MANAGE_MESSAGES", "MISSING_MANAGE_CHANNELS",
      "MISSING_CREATE_INSTANT_INVITE", "MISSING_MANAGE_WEBHOOKS" }

ValidationErrors == { "MESSAGE_MAX_LENGTH", "DELETE_MESSAGES_MIN" }

Guarded == last.op \in GuardedOps
PermissionDenied == last.out.kind = "thrown" /\ last.out.error \in PermissionErrors
ValidationFailed == last.out.kind = "thrown" /\ last.out.error \in ValidationErrors
SilentNoOp == Called("getMessages") /\ last.out.kind = "returned"
DispatchedOnce == last.out.kind = "dispatched" /\ Len(last.out.requests) = 1
NoTransport == last.out.requests = <<>>

\* the content of a sendMessage argument, a string being {content: string}
ContentLength(content) ==
    IF "length" \in DOMAIN content THEN Some(content.length)
    ELSE IF content.content = None THEN None
    ELSE Some(content.content[1].length)

IsTts(content) == "tts" \in DOMAIN content /\ content.tts = Some(TRUE)

SentTooLong ==
    /\ Called("sendMessage")
    /\ ContentLength(last.args[1]) # None
    /\ ContentLength(last.args[1])[1] > MESSAGE_MAX_LENGTH

LimitOf(options) ==
    IF options = None THEN None ELSE options[1].limit

LimitAbove ==
    /\ Called("getMessages")
    /\ LimitOf(last.args[1]) # None
    /\ LimitOf(last.args[1])[1] > GET_MESSAGES_MAX

TooFewIds == Called("deleteMessages") /\ Len(last.args[1]) < DELETE_MESSAGES_MIN

\* the structural validation of the action table passes
Valid == ~SentTooLong /\ ~LimitAbove /\ ~TooFewIds

\* the permissions the action table requires of the call
RequiredFor ==
    CASE last.op \in {"getMessage", "getMessages"} -> {VIEW_CHANNEL, READ_MESSAGE_HISTORY}
      [] last.op = "sendMessage" ->
            {SEND_MESSAGES} \cup
            (IF IsTts(last.args[1]) THEN {SEND_TTS_MESSAGES} ELSE {})
      [] last.op = "deleteMessages" -> {MANAGE_MESSAGES}
      [] last.op = "getInvites" -> {MANAGE_CHANNELS}
      [] last.op = "createInvite" -> {CREATE_INSTANT_INVITE}
      [] last.op = "getWebhooks" -> {MANAGE_WEBHOOKS}
      [] OTHER -> {}

\* the channel has no guild, or its guild grants all the call requires
Permitted == GuildOf = None \/ \A p \in RequiredFor : Granted(GuildOf, p)

(* C4: a call of a guarded method that ends in PermissionDenied, in
   ValidationFailed or in the silent no-op of getMessages has made no call of
   RequestManager. *)
C4_FailureIssuesNothing ==
    (Guarded /\ (PermissionDenied \/ ValidationFailed \/ SilentNoOp)) => NoTransport

\* a message that is too long, refused on a channel whose guild permits sending
C4_Witness ==
    /\ Called("sendMessage")
    /\ GuildOf # None
    /\ ValidationFailed
    /\ NoTransport

(* C5: on a channel with a guild id a guarded method calls RequestManager only
   if the guild grants every permission the action table requires of the call,
   and it is refused for a permission only if the guild denies one of them;
   getPins and edit call RequestManager whatever the guild answers. *)
C5_DispatchNeedsGrants ==
    /\ (Guarded /\ GuildOf # None /\ ~NoTransport) =>
            \A p \in RequiredFor : Granted(GuildOf, p)
    /\ (Guarded /\ GuildOf # None /\ PermissionDenied) =>
            \E p \in RequiredFor : ~Granted(GuildOf, p)
    /\ (Called("getPins") \/ Called("edit")) => DispatchedOnce

\* a text-to-speech message sent on a guild channel
C5_Witness ==
    /\ Called("sendMessage")
    /\ GuildOf # None
    /\ IsTts(last.args[1])
    /\ DispatchedOnce
    /\ Granted(GuildOf, SEND_TTS_MESSAGES)

(* C6: on a channel without a guild id a guarded method does not ask the guild,
   never ends in PermissionDenied, and calls RequestManager whenever the
   structural validation passes. *)
C6_NoGuildNoGate ==
    (Guarded /\ GuildOf = None) =>
        /\ last.out.consulted = <<>>
        /\ ~PermissionDenied
        /\ Valid => DispatchedOnce

\* webhooks listed on a channel without a guild while the guild grants nothing
C6_Witness ==
    /\ Called("getWebhooks")
    /\ GuildOf = None
    /\ oracle = {}
    /\ DispatchedOnce

----------------------------------------------------------------------------
(* Structural validation *)

(* C7 as stated: sendMessage with content longer than 2000 characters ends in
   ValidationFailed (message too long) with no call of RequestManager, on every
   channel and whatever the guild answers; shorter or absent content does not
   end in ValidationFailed. *)
C7_Original ==
    Called("sendMessage") =>
        /\ SentTooLong =>
              /\ last.out.kind = "thrown"
              /\ last.out.error = "MESSAGE_MAX_LENGTH"
              /\ NoTransport
        /\ ~SentTooLong => ~ValidationFailed

(* C7: sendMessage with content longer than 2000 characters makes no call of
   RequestManager; it ends in ValidationFailed (message too long) when the
   channel has no guild id or the guild grants the permissions the call
   requires, and in PermissionDenied otherwise.  Content of at most 2000
   characters, or absent content, does not end in ValidationFailed. *)
C7_TooLongAfterPermissions ==
    Called("sendMessage") =>
        /\ SentTooLong =>
              /\ NoTransport
              /\ Permitted =>
                    last.out.kind = "thrown" /\ last.out.error = "MESSAGE_MAX_LENGTH"
              /\ ~Permitted => PermissionDenied
        /\ ~SentTooLong => ~ValidationFailed

\* a string one character too long, refused on a guild channel that may send
C7_Witness ==
    /\ SentTooLong
    /\ "length" \in DOMAIN last.args[1]
    /\ last.args[1].length = MESSAGE_MAX_LENGTH + 1
    /\ GuildOf # None
    /\ Permitted
    /\ last.out.error = "MESSAGE_MAX_LENGTH"
    /\ NoTransport

(* C8 as stated: deleteMessages with fewer than 2 ids ends in ValidationFailed
   (below minimum) with no call of RequestManager, on every channel and
   whatever the guild answers. *)
C8_Original ==
    TooFewIds =>
        /\ last.out.kind = "thrown"
        /\ last.out.error = "DELETE_MESSAGES_MIN"
        /\ NoTransport

(* C8: deleteMessages with fewer than 2 ids makes no call of RequestManager; it
   ends in ValidationFailed (below minimum) when the channel has no guild id or
   the guild grants MANAGE_MESSAGES, and in PermissionDenied otherwise. *)
C8_TooFewAfterPermissions ==
    TooFewIds =>
        /\ NoTransport
        /\ Permitted =>
              last.out.kind = "thrown" /\ last.out.error = "DELETE_MESSAGES_MIN"
        /\ ~Permitted =>
              last.out.kind = "thrown" /\ last.out.error = "MISSING_MANAGE_MESSAGES"

\* one id, refused on a guild channel that may manage messages
C8_Witness ==
    /\ TooFewIds
    /\ Len(last.args[1]) = 1
    /\ GuildOf # None
    /\ Permitted
    /\ last.out.error = "DELETE_MESSAGES_MIN"
    /\ NoTransport

\* the first min(n, 100) ids of the argument, in their order
FirstIds(ids) ==
    [ i \in 1 .. (IF Len(ids) < DELETE_MESSAGES_MAX THEN Len(ids)
                  ELSE DELETE_MESSAGES_MAX) |-> ids[i] ]

(* C9: deleteMessages with n >= 2 ids, on a channel with no guild id or whose
   guild grants MANAGE_MESSAGES, makes exactly one call, a bulk delete of the
   first min(n, 100) ids in their order with the reason given; it warns if and
   only if n > 100 and throws nothing. *)
C9_BulkDeleteFirstHundred ==
    (Called("deleteMessages") /\ ~TooFewIds /\ Permitted) =>
        /\ DispatchedOnce
        /\ last.out.requests[1].method = "POST"
        /\ last.out.requests[1].endpoint = <<"CHANNEL_BULK_DELETE", last.channel>>
        /\ last.out.requests[1].body[1].messages = FirstIds(last.args[1])
        /\ last.out.requests[1].body[1].reason = last.args[2]
        /\ last.out.warnings > 0 <=> Len(last.args[1]) > DELETE_MESSAGES_MAX

\* more than 100 ids in falling order with a reason: 100 are sent, with a warning
C9_Witness ==
    /\ Called("deleteMessages")
    /\ Len(last.args[1]) > DELETE_MESSAGES_MAX
    /\ last.args[1][1] > last.args[1][2]
    /\ last.args[2] # None
    /\ DispatchedOnce
    /\ Len(last.out.requests[1].body[1].messages) = DELETE_MESSAGES_MAX
    /\ last.out.warnings = 1

(* C10 as stated: getMessages with a limit above 100 returns nothing, throws
   nothing and makes no call of RequestManager, and with a limit of at most 100
   or none makes exactly one call, on every channel and whatever the guild
   answers. *)
C10_Original ==
    Called("getMessages") =>
        /\ LimitAbove => last.out.kind = "returned" /\ NoTransport
        /\ ~LimitAbove => DispatchedOnce

(* C10: on a channel with no guild id or whose guild grants VIEW_CHANNEL and
   READ_MESSAGE_HISTORY, getMessages with a limit above 100 returns nothing,
   throws nothing and makes no call of RequestManager, and with a limit of at
   most 100 or none makes exactly one call; on a guild channel missing one of
   the two permissions it ends in PermissionDenied with no call, whatever the
   limit. *)
C10_LimitAfterPermissions ==
    Called("getMessages") =>
        /\ (Permitted /\ LimitAbove) => last.out.kind = "returned" /\ NoTransport
        /\ (Permitted /\ ~LimitAbove) => DispatchedOnce
        /\ ~Permitted => PermissionDenied /\ NoTransport

\* a limit of 101 on a guild channel that may read: nothing is returned
C10_Witness ==
    /\ LimitAbove
    /\ LimitOf(last.args[1])[1] = GET_MESSAGES_MAX + 1
    /\ GuildOf # None
    /\ Permitted
    /\ SilentNoOp
    /\ NoTransport

----------------------------------------------------------------------------
(* hasPermission without a guild id, and the order of its evaluation *)

\* the overwrite allows every required flag and denies none of them
AllowsAll(overwrite, required) ==
    \A i \in 1 .. Len(required) :
        Has(overwrite.allow, required[i]) /\ ~Has(overwrite.deny, required[i])

(* C12 as stated: on a channel without a guild id hasPermission returns false
   for every actor id and every non-empty list of required flags, also when an
   overwrite of that actor allows the required flags. *)
C12_Original ==
    (Called("hasPermission") /\ GuildOf = None /\ Required # <<>>) =>
        last.value = Some(FALSE)

(* C12: on a channel without a guild id hasPermission never asks the guild, and
   returns true if and only if the actor id has an overwrite and the first such
   overwrite allows every required flag and denies none of them; it returns
   false for every other actor id and list of required flags. *)
C12_NoGuildAllowDecides ==
    (Called("hasPermission") /\ GuildOf = None) =>
        /\ last.out.consulted = <<>>
        /\ (last.value = Some(TRUE)) <=>
              /\ HasFor(OverwriteList, Actor)
              /\ AllowsAll(FirstFor(OverwriteList, Actor)[1], Required)

\* no guild id, two required flags, both allowed by the actor's overwrite: true
C12_Witness ==
    /\ Called("hasPermission")
    /\ GuildOf = None
    /\ Len(Required) = 2
    /\ Required[1] # Required[2]
    /\ HasFor(OverwriteList, Actor)
    /\ AllowsAll(FirstFor(OverwriteList, Actor)[1], Required)
    /\ last.value = Some(TRUE)

\* the flag is in neither mask of the overwrite
Open(overwrite, flag) == ~Has(overwrite.allow, flag) /\ ~Has(overwrite.deny, flag)

\* the flag passes its check
Passes(overwrite, guild, flag) ==
    /\ ~Has(overwrite.deny, flag)
    /\ Has(overwrite.allow, flag) \/ Granted(guild, flag)

\* how many flags are evaluated: up to and including the first that fails
Evaluated(overwrite, guild, required) ==
    LET failing == { i \in 1 .. Len(required) : ~Passes(overwrite, guild, required[i]) }
    IN  IF failing = {} THEN Len(required)
        ELSE CHOOSE i \in failing : \A j \in failing : i <= j

\* the questions put to the guild: one for each evaluated flag that is open
\* on a channel with a guild id, in the order of the flags
Consultations(overwrite, guild, required) ==
    LET IsOpen(i) == guild # None /\ Open(overwrite, required[i])
        at == SelectSeq([i \in 1 .. Evaluated(overwrite, guild, required) |-> i], IsOpen)
    IN  [ k \in 1 .. Len(at) |-> <<guild[1], required[at[k]]>> ]

(* C16: hasPermission evaluates the required flags in their order and stops at
   the first that fails: the guild is asked only about a flag that is in
   neither mask of the selected overwrite, one flag per question, in order, and
   never about a flag after the first failing one; a flag in the deny mask
   makes the result false, also when it is in the allow mask and the guild
   grants it. *)
C16_ShortCircuit ==
    (Called("hasPermission") /\ Selected(OverwriteList, Actor, GuildOf) # None) =>
        /\ last.out.consulted =
              Consultations(Selected(OverwriteList, Actor, GuildOf)[1], GuildOf, Required)
        /\ (\E i \in 1 .. Len(Required) :
                Has(Selected(OverwriteList, Actor, GuildOf)[1].deny, Required[i])) =>
              last.value = Some(FALSE)

\* the first flag is denied, allowed and granted by the guild, the second is
\* open: the result is false and the guild is asked nothing
C16_Witness ==
    /\ Called("hasPermission")
    /\ Selected(OverwriteList, Actor, GuildOf) # None
    /\ GuildOf # None
    /\ Len(Required) = 2
    /\ Has(Selected(OverwriteList, Actor, GuildOf)[1].deny, Required[1])
    /\ Has(Selected(OverwriteList, Actor, GuildOf)[1].allow, Required[1])
    /\ Granted(GuildOf, Required[1])
    /\ Open(Selected(OverwriteList, Actor, GuildOf)[1], Required[2])
    /\ Granted(GuildOf, Required[2])
    /\ last.value = Some(FALSE)
    /\ last.out.consulted = <<>>

----------------------------------------------------------------------------
(* The order of the checks of a guarded method *)

(* C13 as stated: structural validation comes before any permission assertion:
   a structurally invalid input on a guild channel whose guild denies a
   required permission ends in the validation outcome (ValidationFailed for
   sendMessage and deleteMessages, the silent no-op for getMessages), not in
   PermissionDenied. *)
C13_Original ==
    (Guarded /\ GuildOf # None /\ ~Valid /\ ~Permitted) =>
        /\ ~PermissionDenied
        /\ ValidationFailed \/ SilentNoOp

(* C13: a guarded method asserts its permissions, then validates the shape of
   its input, then calls RequestManager: when a required permission is missing
   the call ends in PermissionDenied whether or not the input is valid; an
   invalid input ends in the validation outcome (ValidationFailed for
   sendMessage and deleteMessages, the silent no-op for getMessages) only when
   the permissions are granted, the guild having been asked first; and
   RequestManager is called only when both have passed. *)
C13_PermissionsBeforeValidation ==
    Guarded =>
        /\ ~Permitted => PermissionDenied /\ NoTransport
        /\ (Permitted /\ ~Valid) =>
              /\ IF Called("getMessages") THEN SilentNoOp ELSE ValidationFailed
              /\ NoTransport
              /\ GuildOf # None => last.out.consulted # <<>>
        /\ (Permitted /\ Valid) => DispatchedOnce

\* too few ids on a guild channel that may not manage messages: the permission
\* is what the call is refused for
C13_Witness ==
    /\ TooFewIds
    /\ GuildOf # None
    /\ ~Permitted
    /\ PermissionDenied
    /\ last.out.error = "MISSING_MANAGE_MESSAGES"

\* the permissions of the call in the order the action table checks them
CheckOrder ==
    CASE last.op \in {"getMessage", "getMessages"} -> <<VIEW_CHANNEL, READ_MESSAGE_HISTORY>>
      [] last.op = "sendMessage" ->
            IF IsTts(last.args[1]) THEN <<SEND_MESSAGES, SEND_TTS_MESSAGES>>
            ELSE <<SEND_MESSAGES>>
      [] last.op = "deleteMessages" -> <<MANAGE_MESSAGES>>
      [] last.op = "getInvites" -> <<MANAGE_CHANNELS>>
      [] last.op = "createInvite" -> <<CREATE_INSTANT_INVITE>>
      [] last.op = "getWebhooks" -> <<MANAGE_WEBHOOKS>>
      [] OTHER -> <<>>

\* the failure that names the permission
MissingError(p) ==
    CASE p = VIEW_CHANNEL -> "MISSING_VIEW_CHANNEL"
      [] p = READ_MESSAGE_HISTORY -> "MISSING_READ_MESSAGE_HISTORY"
      [] p = SEND_MESSAGES -> "MISSING_SEND_MESSAGES"
      [] p = SEND_TTS_MESSAGES -> "MISSING_SEND_TTS_MESSAGE"
      [] p = MANAGE_MESSAGES -> "MISSING_MANAGE_MESSAGES"
      [] p = MANAGE_CHANNELS -> "MISSING_MANAGE_CHANNELS"
      [] p = CREATE_INSTANT_INVITE -> "MISSING_CREATE_INSTANT_INVITE"
      [] p = MANAGE_WEBHOOKS -> "MISSING_MANAGE_WEBHOOKS"

\* the place in the checking order of the first permission the guild denies
FirstDenied ==
    CHOOSE i \in 1 .. Len(CheckOrder) :
        /\ ~Granted(GuildOf, CheckOrder[i])
        /\ \A j \in 1 .. i - 1 : Granted(GuildOf, CheckOrder[j])

(* C14: a PermissionDenied failure of a guarded method names exactly one
   permission, the first in the method's checking order that the guild denies
   (VIEW_CHANNEL before READ_MESSAGE_HISTORY, SEND_MESSAGES before
   SEND_TTS_MESSAGES), and the guild has been asked about the permissions up
   to that one, in order, and about none after it. *)
C14_FirstDeniedNamed ==
    (Guarded /\ PermissionDenied) =>
        /\ GuildOf # None
        /\ \E i \in 1 .. Len(CheckOrder) : ~Granted(GuildOf, CheckOrder[i])
        /\ last.out.error = MissingError(CheckOrder[FirstDenied])
        /\ last.out.consulted =
              [ i \in 1 .. FirstDenied |-> <<GuildOf[1], CheckOrder[i]>> ]

\* the guild denies both permissions of getMessage: VIEW_CHANNEL is named and
\* READ_MESSAGE_HISTORY is not asked about
C14_Witness ==
    /\ Called("getMessage")
    /\ GuildOf # None
    /\ ~Granted(GuildOf, VIEW_CHANNEL)
    /\ ~Granted(GuildOf, READ_MESSAGE_HISTORY)
    /\ last.out.error = "MISSING_VIEW_CHANNEL"
    /\ last.out.consulted = << <<GuildOf[1], VIEW_CHANNEL>> >>

----------------------------------------------------------------------------
(* Overwrites and the guarded methods *)

\* what the call recorded in last does on a channel of the given payload
OutcomeOn(data) ==
    CASE last.op = "getMessage" -> getMessage(data, last.args[1])
      [] last.op = "getMessages" -> getMessages(data, last.args[1])
      [] last.op = "sendMessage" -> sendMessage(data, last.args[1])
      [] last.op = "deleteMessages" -> deleteMessages(data, last.args[1], last.args[2])
      [] last.op = "getInvites" -> getInvites(data)
      [] last.op = "createInvite" -> createInvite(data, last.args[1])
      [] last.op = "getWebhooks" -> getWebhooks(data)

\* payloads with the id and the guild id of the channel called, whatever
\* their overwrites
SameButOverwrites ==
    { data \in MethodPayloads :
        data.id = Channel.raw.id /\ data.guild_id = Channel.raw.guild_id }

(* C19: on a guild channel what a guarded method does is decided by the
   guild's answers and by its input, never by the channel's overwrites: it is
   refused for a permission exactly when the guild denies a required one, and
   on any channel of the same id and guild id with other overwrites the same
   call, under the same answers, has the same outcome. *)
C19_OverwritesPlayNoPart ==
    (Guarded /\ GuildOf # None) =>
        /\ PermissionDenied <=> ~Permitted
        /\ \A data \in SameButOverwrites : OutcomeOn(data) = last.out

\* invites listed on a guild channel whose overwrite denies MANAGE_CHANNELS
C19_Witness ==
    /\ Called("getInvites")
    /\ GuildOf # None
    /\ Len(OverwriteList) = 1
    /\ Has(OverwriteList[1].deny, MANAGE_CHANNELS)
    /\ DispatchedOnce
    /\ \E data \in SameButOverwrites : overwritesOf(data) = <<>>

----------------------------------------------------------------------------
(* The caller's array of deleteMessages *)

\* the ids after the first min(n, 100), in their order
RestIds(ids) ==
    [ i \in 1 .. (Len(ids) - Len(FirstIds(ids))) |-> ids[i + Len(FirstIds(ids))] ]

\* a second call with the array as the first call left it
SecondCall == deleteMessages(Channel.raw, last.out.ids, last.args[2])

(* C20: deleteMessages consumes the caller's array: after a call that reaches
   RequestManager the array has lost its first min(n, 100) ids and keeps the
   others in order, so that a second call with the same array sends the next
   ids, or ends in ValidationFailed (below minimum) when fewer than 2 are left;
   after a call that ends in PermissionDenied or in ValidationFailed the array
   is as it was. *)
C20_IdsConsumed ==
    Called("deleteMessages") =>
        /\ last.out.kind = "thrown" => last.out.ids = last.args[1]
        /\ last.out.kind = "dispatched" =>
              /\ last.out.ids = RestIds(last.args[1])
              /\ IF Len(RestIds(last.args[1])) < DELETE_MESSAGES_MIN
                 THEN SecondCall.kind = "thrown" /\ SecondCall.error = "DELETE_MESSAGES_MIN"
                 ELSE /\ SecondCall.kind = "dispatched"
                      /\ SecondCall.requests[1].body[1].messages =
                            FirstIds(RestIds(last.args[1]))

\* 102 ids in falling order: 100 are sent, and the 2 left are what a second
\* call sends
C20_Witness ==
    /\ Called("deleteMessages")
    /\ last.out.kind = "dispatched"
    /\ Len(last.args[1]) = DELETE_MESSAGES_MAX + DELETE_MESSAGES_MIN
    /\ last.args[1][1] > last.args[1][2]
    /\ last.out.ids = <<2, 1>>
    /\ SecondCall.kind = "dispatched"
    /\ SecondCall.requests[1].body[1].messages = <<2, 1>>

----------------------------------------------------------------------------
(* The cache and the calls in flight *)

\* the overwrites of a payload
OverwritesIn(payload) ==
    IF payload.permission_overwrites = None THEN <<>>
    ELSE payload.permission_overwrites[1]

\* the entity has every field from the payload, and from nothing else
BuiltFrom(payload, entity) ==
    /\ entity.id = payload.id
    /\ entity.raw = payload
    /\ entity.guildID = payload.guild_id
    /\ entity.nsfw = (payload.nsfw = Some(TRUE))
    /\ entity.mention = <<"<#", payload.id, ">">>
    /\ Len(entity.permissions) = Len(OverwritesIn(payload))
    /\ \A i \in 1 .. Len(OverwritesIn(payload)) :
          /\ entity.permissions[i].id = OverwritesIn(payload)[i].id
          /\ entity.permissions[i].allow =
                { p \in Permissions : Has(OverwritesIn(payload)[i].allow, p) }
          /\ entity.permissions[i].deny =
                { p \in Permissions : Has(OverwritesIn(payload)[i].deny, p) }

(* C11: after any sequence of createChannel calls the cache holds, for each id,
   the entity built from the latest payload of that id, every field from that
   payload alone, and nothing for an id no payload had; so a createChannel
   call for one id leaves the entries of the other ids as they were. *)
C11_CacheHoldsLatest ==
    \A c \in DOMAIN cache :
        IF created[c] = None THEN cache[c] = None
        ELSE cache[c] # None /\ BuiltFrom(created[c][1], cache[c][1])

\* a call made on the guild channel "10" is still around after "10" was
\* created again without a guild id: the entry has no guild id, and "11",
\* never created, has no entry
C11_Witness ==
    /\ created["10"] # None
    /\ created["10"][1].guild_id = None
    /\ cache["10"] # None
    /\ cache["10"][1].guildID = None
    /\ cache["10"][1].permissions = <<>>
    /\ cache["11"] = None
    /\ \E t \in 1 .. MaxTasks :
          /\ tasks[t] # None
          /\ tasks[t][1].data.id = "10"
          /\ tasks[t][1].data.guild_id # None

EntityFields == {"id", "raw", "guildID", "permissions", "nsfw", "mention"}

InFlight(t) == tasks[t] # None /\ tasks[t][1].state = "awaiting"

(* C17: in every state, whatever createChannel calls and calls in flight are
   interleaved, each cache entry is a completely built channel object whose id
   is its key, and it is the object of the createChannel call for that id that
   ended last. *)
C17_EntriesCompleteAndKeyed ==
    \A c \in DOMAIN cache :
        cache[c] # None =>
            /\ DOMAIN cache[c][1] = EntityFields
            /\ cache[c][1].id = c
            /\ cache[c][1].raw.id = c
            /\ created[c] # None
            /\ cache[c][1].raw = created[c][1]

\* both ids are cached, and a call in flight was made on an object that a
\* later createChannel call has replaced
C17_Witness ==
    /\ \A c \in DOMAIN cache : cache[c] # None
    /\ \E t \in 1 .. MaxTasks :
          /\ InFlight(t)
          /\ cache[tasks[t][1].data.id][1].raw # tasks[t][1].data
          /\ cache[tasks[t][1].data.id][1].raw = created[tasks[t][1].data.id][1]
          /\ DOMAIN cache[tasks[t][1].data.id][1] = EntityFields

(* C18: no step of a method of a channel, hasPermission included, changes the
   cache: only createChannel writes it.  An edit that succeeds gives its
   caller the raw result of the patch, and the cached channel, overwrites
   included, stays as it was. *)
C18_OnlyCreateWrites ==
    [][ /\ tasks' # tasks => cache' = cache
        /\ \A t \in 1 .. MaxTasks :
              ( /\ InFlight(t)
                /\ tasks[t][1].op = "edit"
                /\ tasks'[t] # None
                /\ tasks'[t][1].state = "fulfilled" ) =>
                  tasks'[t][1].result = Some(tasks'[t][1].response[1].value)
      ]_vars

\* an edit has succeeded with a patch result without overwrites, and the
\* cached channel still has its overwrite
C18_Witness ==
    \E t \in 1 .. MaxTasks :
        /\ tasks[t] # None
        /\ tasks[t][1].op = "edit"
        /\ tasks[t][1].state = "fulfilled"
        /\ tasks[t][1].result[1].permission_overwrites = None
        /\ cache[tasks[t][1].data.id][1].raw = tasks[t][1].data
        /\ Len(cache[tasks[t][1].data.id][1].permissions) = 1

\* the permissions the action table requires of a call in flight
TaskNeeds(task) ==
    CASE task.op = "getMessage" -> {VIEW_CHANNEL, READ_MESSAGE_HISTORY}
      [] task.op = "sendMessage" ->
            {SEND_MESSAGES} \cup
            (IF IsTts(task.args[1]) THEN {SEND_TTS_MESSAGES} ELSE {})
      [] task.op = "deleteMessages" -> {MANAGE_MESSAGES}
      [] OTHER -> {}

\* the guild grants them now (a channel without guild needs none)
TaskPermitted(task) ==
    \/ task.data.guild_id = None
    \/ \A p \in TaskNeeds(task) : Granted(task.data.guild_id, p)

\* the shape of the input is valid
TaskValid(task) ==
    /\ task.op = "deleteMessages" => Len(task.args[1]) >= DELETE_MESSAGES_MIN
    /\ task.op = "sendMessage" =>
          \/ ContentLength(task.args[1]) = None
          \/ ContentLength(task.args[1])[1] <= MESSAGE_MAX_LENGTH

(* C15: in every interleaving of calls of methods, createChannel calls and
   changes of the guild's answers, a method whose checks pass calls
   RequestManager exactly once in the step of those checks, so nothing comes
   between the check and the call; it waits only once the call is made; no
   later step of it calls RequestManager again; and a failure of
   RequestManager reaches the caller as it is. *)
C15_DispatchWithChecks ==
    [][ \A t \in 1 .. MaxTasks :
          /\ (tasks[t] = None /\ tasks'[t] # None /\ tasks'[t][1].op # "hasPermission") =>
                IF TaskPermitted(tasks'[t][1]) /\ TaskValid(tasks'[t][1])
                THEN /\ tasks'[t][1].state = "awaiting"
                     /\ Len(tasks'[t][1].out.requests) = 1
                ELSE /\ tasks'[t][1].state = "rejected"
                     /\ tasks'[t][1].out.requests = <<>>
          /\ (tasks[t] # None /\ tasks'[t] # None) =>
                tasks'[t][1].out.requests = tasks[t][1].out.requests
          /\ (InFlight(t) /\ tasks'[t] # None /\ tasks'[t][1].response # None) =>
                IF tasks'[t][1].response[1].ok
                THEN tasks'[t][1].state = "fulfilled"
                ELSE /\ tasks'[t][1].state = "rejected"
                     /\ tasks'[t][1].result = Some(tasks'[t][1].response[1].value)
      ]_vars

\* a message was sent while the guild granted SEND_MESSAGES; the guild has
\* since withdrawn it and the channel has been created again; RequestManager
\* has failed, and the caller has its failure after one call
C15_Witness ==
    \E t \in 1 .. MaxTasks :
        /\ tasks[t] # None
        /\ tasks[t][1].op = "sendMessage"
        /\ tasks[t][1].data.guild_id # None
        /\ ~TaskPermitted(tasks[t][1])
        /\ cache[tasks[t][1].data.id][1].raw # tasks[t][1].data
        /\ tasks[t][1].state = "rejected"
        /\ tasks[t][1].response # None
        /\ tasks[t][1].result = Some(tasks[t][1].response[1].value)
        /\ Len(tasks[t][1].out.requests) = 1

====
